---- MODULE Spec2Model ----
(***************************************************************************)
(* netpbmr: encoders for PBM, PGM and PAM images, the header metadata      *)
(* (Info) with its field and sample validation, and the PBM decoder.       *)
(*                                                                         *)
(* Bytes are the integers 0..255, byte strings are sequences of bytes.     *)
(* A Result<T, NetpbmError> is a record with a tag: "Ok" or the name of    *)
(* the NetpbmError variant, plus the fields of that variant.  A panic      *)
(* (abort of the call) is the tag "Panic".                                 *)
(***************************************************************************)
EXTENDS Integers, Sequences, FiniteSets, TLC

(***************************************************************************)
(* Bounds of the model.                                                    *)
(***************************************************************************)
\* widths, heights and channel counts are drawn from 0..MaxDim and WrapDim
MaxDim == 2
\* sample buffers handed to an encoder hold at most MaxLen samples
MaxLen == 2
\* sample buffers handed to Info::validate_* hold at most ValMaxLen samples
ValMaxLen == 3
\* write calls made on one encoder
MaxCalls == 2
\* long bitmaps: widths 1..MaxLongWidth and heights 1..MaxLongHeight
MaxLongWidth == 36
MaxLongHeight == 3
\* inputs handed to the decoder hold at most MaxInput bytes
MaxInput == 3
\* bytes a failing sink takes before it reports the failure: 0..MaxAccepted
MaxAccepted == 1
\* arguments of the field constructors: 0..MaxField and values around the type limits
MaxImages == 3
MaxField == 3

\* a dimension whose square is 2^32: the u32 product of two of them wraps to 0
WrapDim == 2^16

(***************************************************************************)
(* Fixed-width integers.  A u32 is kept as two 16-bit limbs <<hi, lo>>,    *)
(* since a u32 product does not fit the model checker's integers.          *)
(***************************************************************************)
ToU32(x) == << (x \div 65536) % 65536, x % 65536 >>

\* the exact product of two 16-bit limbs, as <<hi, lo>>
Mul16(x, y) ==
    LET t1  == (x \div 256) * y
        t2  == (x % 256) * y
        low == (t1 % 256) * 256 + t2
    IN  << (t1 \div 256) + (low \div 65536), low % 65536 >>

\* u32 * u32: the wrapped product and whether the exact product overflowed
MulU32(a, b) ==
    LET p   == Mul16(a[2], b[2])
        m1  == Mul16(a[1], b[2])
        m2  == Mul16(a[2], b[1])
        hi  == p[1] + m1[2] + m2[2]
    IN  [ val      |-> << hi % 65536, p[2] >>,
          overflow |-> \/ (a[1] # 0 /\ b[1] # 0)
                       \/ m1[1] # 0
                       \/ m2[1] # 0
                       \/ hi >= 65536 ]

\* bitwise or of two bytes
RECURSIVE BitOr(_, _)
BitOr(a, b) ==
    IF a = 0 THEN b
    ELSE IF b = 0 THEN a
    ELSE (IF a % 2 = 1 \/ b % 2 = 1 THEN 1 ELSE 0) + 2 * BitOr(a \div 2, b \div 2)

\* u8 << n, for 0 <= n <= 7
ShlU8(b, n) == (b * 2^n) % 256

(***************************************************************************)
(* Text.                                                                   *)
(***************************************************************************)
\* Display of an unsigned integer: decimal ASCII digits
RECURSIVE to_string(_)
to_string(n) ==
    IF n < 10 THEN << 48 + n >>
    ELSE to_string(n \div 10) \o << 48 + (n % 10) >>

RECURSIVE Flatten(_)
Flatten(ss) == IF ss = << >> THEN << >> ELSE Head(ss) \o Flatten(Tail(ss))

\* slice::chunks(n)
RECURSIVE chunks(_, _)
chunks(s, n) ==
    IF Len(s) = 0 THEN << >>
    ELSE IF Len(s) <= n THEN << s >>
    ELSE << SubSeq(s, 1, n) >> \o chunks(SubSeq(s, n + 1, Len(s)), n)

\* [String]::join(sep)
RECURSIVE join(_, _)
join(ss, sep) ==
    IF ss = << >> THEN << >>
    ELSE IF Len(ss) = 1 THEN ss[1]
    ELSE ss[1] \o sep \o join(Tail(ss), sep)

Map(s, F(_)) == [i \in 1..Len(s) |-> F(s[i])]

(***************************************************************************)
(* Formats and magic numbers (formats.rs).                                 *)
(***************************************************************************)
NetpbmFormat == {"PBMRaw", "PBMPlain", "PGMRaw", "PGMPlain", "PPMRaw", "PPMPlain", "PAM"}
MagicNumber  == {"P1", "P2", "P3", "P4", "P5", "P6", "P7"}
EncodingType == {"Raw", "Plain"}

is_pnm_any(format) == format \in NetpbmFormat

is_pnm(format) ==
    format \in {"PBMRaw", "PBMPlain", "PGMRaw", "PGMPlain", "PPMRaw", "PPMPlain"}

\* the raw bitmap given the plain bitmap's magic number
magic_pbm_raw_as_p1(format) ==
    CASE format = "PBMPlain" -> "P1"
      [] format = "PGMPlain" -> "P2"
      [] format = "PPMPlain" -> "P3"
      [] format = "PBMRaw"   -> "P1"
      [] format = "PGMRaw"   -> "P5"
      [] format = "PPMRaw"   -> "P6"
      [] format = "PAM"      -> "P7"

magic(format) ==
    CASE format = "PBMPlain" -> "P1"
      [] format = "PGMPlain" -> "P2"
      [] format = "PPMPlain" -> "P3"
      [] format = "PBMRaw"   -> "P4"
      [] format = "PGMRaw"   -> "P5"
      [] format = "PPMRaw"   -> "P6"
      [] format = "PAM"      -> "P7"

to_bytes(m) ==
    CASE m = "P1" -> << 80, 49 >>
      [] m = "P2" -> << 80, 50 >>
      [] m = "P3" -> << 80, 51 >>
      [] m = "P4" -> << 80, 52 >>
      [] m = "P5" -> << 80, 53 >>
      [] m = "P6" -> << 80, 54 >>
      [] m = "P7" -> << 80, 55 >>

(***************************************************************************)
(* Field validators (formats.rs).                                          *)
(***************************************************************************)
Ok == [tag |-> "Ok"]
Panic == [tag |-> "Panic"]

BitDepth_new(value) ==
    IF value > 0 THEN Ok ELSE [tag |-> "InvalidBitDepth", value |-> value]

ImageDim_new(value) ==
    IF value > 0 THEN Ok ELSE [tag |-> "InvalidImageDim", value |-> value]

ChannelDepth_new(value) ==
    IF value > 0 THEN Ok ELSE [tag |-> "InvalidChannelDepth", value |-> value]

(***************************************************************************)
(* The field validators of fields.rs, over u32.  A constructor returns the *)
(* error or Ok with the field it built; value reads the field back.        *)
(***************************************************************************)
BitDepth_MIN == 1
BitDepth_MAX == 65535

\* a constructor that clamps to the range
fields_BitDepth_new_clamped(val) ==
    IF val < BitDepth_MIN THEN [tag |-> "InvalidBitDepth", value |-> val]
    ELSE [tag |-> "Ok", self |-> IF val > BitDepth_MAX THEN BitDepth_MAX ELSE val]

fields_BitDepth_new(val) ==
    IF BitDepth_MIN <= val /\ val <= BitDepth_MAX
    THEN [tag |-> "Ok", self |-> val]
    ELSE [tag |-> "InvalidBitDepth", value |-> val]

\* a constructor that keeps dimensions within 16 bits
fields_ImageDim_new_u16(val) ==
    IF val > 0 /\ val < 65536
    THEN [tag |-> "Ok", self |-> val]
    ELSE [tag |-> "InvalidImageDim", value |-> val]

fields_ImageDim_new(val) ==
    IF val > 0 THEN [tag |-> "Ok", self |-> val]
    ELSE [tag |-> "InvalidImageDim", value |-> val]

fields_ChannelDepth_new(val) ==
    IF val > 0 THEN [tag |-> "Ok", self |-> val]
    ELSE [tag |-> "InvalidChannelDepth", value |-> val]

\* Ok(Self(value)) of the formats.rs constructors, which the Info constructors
\* use for their result only
Built(res, value) == IF res.tag = "Ok" THEN [tag |-> "Ok", self |-> value] ELSE res

value(self) == self

is_multi_byte(bit_depth) == bit_depth > 255

(***************************************************************************)
(* Info and its constructors.  A constructor returns [res, info]: info is  *)
(* meaningful only when res is Ok.  The fields are validated in the order  *)
(* the struct expression lists them; the first error is returned.          *)
(***************************************************************************)
MkInfo(format, encoding, width, height, bit_depth, channels) ==
    [ format |-> format, encoding |-> encoding, width |-> width, height |-> height,
      bit_depth |-> bit_depth, channels |-> channels ]

\* the error of the last invalid field
LastErr(rs) ==
    IF \E i \in 1..Len(rs) : rs[i].tag # "Ok"
    THEN rs[CHOOSE i \in 1..Len(rs) :
                rs[i].tag # "Ok" /\ \A j \in (i + 1)..Len(rs) : rs[j].tag = "Ok"]
    ELSE Ok

FirstErr(rs) ==
    IF \E i \in 1..Len(rs) : rs[i].tag # "Ok"
    THEN rs[CHOOSE i \in 1..Len(rs) : rs[i].tag # "Ok" /\ \A j \in 1..(i - 1) : rs[j].tag = "Ok"]
    ELSE Ok

new_pbm(encoding, width, height) ==
    [ res  |-> FirstErr(<< ImageDim_new(width), ImageDim_new(height),
                           BitDepth_new(1), ChannelDepth_new(1) >>),
      info |-> MkInfo(IF encoding = "Raw" THEN "PBMRaw" ELSE "PBMPlain",
                      encoding, width, height, 1, 1) ]

new_pgm(encoding, width, height, bit_depth) ==
    [ res  |-> FirstErr(<< ImageDim_new(width), ImageDim_new(height),
                           BitDepth_new(bit_depth), ChannelDepth_new(1) >>),
      info |-> MkInfo(IF encoding = "Raw" THEN "PGMRaw" ELSE "PGMPlain",
                      encoding, width, height, bit_depth, 1) ]

\* a pixmap Info with one channel
new_ppm_one_channel(encoding, width, height, bit_depth) ==
    [ res  |-> FirstErr(<< ImageDim_new(width), ImageDim_new(height),
                           BitDepth_new(bit_depth), ChannelDepth_new(1) >>),
      info |-> MkInfo(IF encoding = "Raw" THEN "PPMRaw" ELSE "PPMPlain",
                      encoding, width, height, bit_depth, 1) ]

new_ppm(encoding, width, height, bit_depth) ==
    [ res  |-> FirstErr(<< ImageDim_new(width), ImageDim_new(height),
                           BitDepth_new(bit_depth), ChannelDepth_new(3) >>),
      info |-> MkInfo(IF encoding = "Raw" THEN "PPMRaw" ELSE "PPMPlain",
                      encoding, width, height, bit_depth, 3) ]

new_pam(width, height, bit_depth, channels) ==
    [ res  |-> FirstErr(<< ImageDim_new(width), ImageDim_new(height),
                           BitDepth_new(bit_depth), ChannelDepth_new(channels) >>),
      info |-> MkInfo("PAM", "Raw", width, height, bit_depth, channels) ]

(***************************************************************************)
(* Sample validation.  checks is the build's overflow-checks setting: with *)
(* it the u32 product panics on overflow, without it the product wraps.    *)
(***************************************************************************)
validate_sample_size(info, samples_len, checks) ==
    LET wh  == MulU32(ToU32(info.width), ToU32(info.height))
        whc == MulU32(wh.val, ToU32(info.channels))
    IN  IF checks /\ (wh.overflow \/ whc.overflow) THEN Panic
        ELSE IF whc.val # ToU32(samples_len)
             THEN [ tag |-> "MalformedInitArray", data_size |-> samples_len,
                    width |-> info.width, height |-> info.height ]
             ELSE Ok

\* a scan that reports the last sample above the bit depth instead of the first
FirstOversized_last(info, samples) ==
    IF \E i \in 1..Len(samples) : samples[i] > info.bit_depth
    THEN [ tag |-> "OversizedSample",
           offset |-> (CHOOSE i \in 1..Len(samples) :
                          /\ samples[i] > info.bit_depth
                          /\ \A j \in (i + 1)..Len(samples) : ~(samples[j] > info.bit_depth)) - 1,
           bit_depth |-> info.bit_depth ]
    ELSE Ok

\* the scan of both validate_u8_samples and validate_u16_samples
FirstOversized(info, samples) ==
    IF \E i \in 1..Len(samples) : samples[i] > info.bit_depth
    THEN [ tag |-> "OversizedSample",
           offset |-> (CHOOSE i \in 1..Len(samples) :
                          /\ samples[i] > info.bit_depth
                          /\ \A j \in 1..(i - 1) : ~(samples[j] > info.bit_depth)) - 1,
           bit_depth |-> info.bit_depth ]
    ELSE Ok

validate_u8_samples(info, samples, checks) ==
    LET size == validate_sample_size(info, Len(samples), checks)
    IN  IF size.tag # "Ok" THEN size ELSE FirstOversized(info, samples)

\* a validation of the sample count only
validate_u16_samples_size_only(info, samples, checks) ==
    validate_sample_size(info, Len(samples), checks)

validate_u16_samples(info, samples, checks) ==
    LET size == validate_sample_size(info, Len(samples), checks)
    IN  IF size.tag # "Ok" THEN size ELSE FirstOversized(info, samples)

(***************************************************************************)
(* TypeInfo (formats.rs): Empty, or Info with a list of tags.              *)
(***************************************************************************)
TypeInfoEmpty == [kind |-> "Empty", tags |-> << >>]
TypeInfoInfo(tags) == [kind |-> "Info", tags |-> tags]

(***************************************************************************)
(* PBM encoder (pbm.rs).  The writer is the byte string written so far; a  *)
(* write returns the new writer and the call's result.                     *)
(***************************************************************************)
pbm_build_header(info) ==
    to_bytes(magic(info.format)) \o << 10 >>
        \o to_string(info.width) \o << 32 >> \o to_string(info.height) \o << 10 >>

\* the fold of one chunk: a | (b << (7 - i)), i counting from 0
\* the i-th sample of a group at bit i
RECURSIVE pack_fold_lsb_first(_, _, _)
pack_fold_lsb_first(x, i, a) ==
    IF i >= Len(x) THEN a
    ELSE pack_fold_lsb_first(x, i + 1, BitOr(a, ShlU8(x[i + 1], i)))

RECURSIVE pack_fold(_, _, _)
pack_fold(x, i, a) ==
    IF i >= Len(x) THEN a
    ELSE pack_fold(x, i + 1, BitOr(a, ShlU8(x[i + 1], 7 - i)))

packed_bytes(samples) == Map(chunks(samples, 8), LAMBDA x : pack_fold(x, 0, 0))

pbm_write_raw(writer, info, samples) ==
    [ writer |-> writer \o (pbm_build_header(info) \o packed_bytes(samples)),
      res    |-> Ok ]

\* lines of 36 tokens
pbm_build_lines_36(samples) ==
    Flatten(Map(chunks(samples, 36),
                LAMBDA chunk : join(Map(chunk, to_string), << 32 >>) \o << 10 >>))

pbm_build_lines(samples) ==
    Flatten(Map(chunks(samples, 35),
                LAMBDA chunk : join(Map(chunk, to_string), << 32 >>) \o << 10 >>))

\* a plain write that refuses a sink which already holds an image
pbm_write_plain_once(writer, info, samples) ==
    IF writer # << >>
    THEN [ writer |-> writer,
           res    |-> [tag |-> "IOOperationFailed", info |-> << "plain image written", << >> >>] ]
    ELSE [ writer |-> writer \o (pbm_build_header(info) \o pbm_build_lines(samples)),
           res    |-> Ok ]

pbm_write_plain(writer, info, samples) ==
    [ writer |-> writer \o (pbm_build_header(info) \o pbm_build_lines(samples)),
      res    |-> Ok ]

\* a write that emits the header before it validates the samples
pbm_write_header_first(writer, encoding, width, height, samples, checks) ==
    LET i == new_pbm(encoding, width, height)
        v == validate_u8_samples(i.info, samples, checks)
    IN  IF i.res.tag # "Ok" THEN [writer |-> writer, res |-> i.res]
        ELSE IF v.tag # "Ok" THEN [writer |-> writer \o pbm_build_header(i.info), res |-> v]
        ELSE IF encoding = "Raw" THEN pbm_write_raw(writer, i.info, samples)
        ELSE pbm_write_plain(writer, i.info, samples)

pbm_write(writer, encoding, width, height, samples, checks) ==
    LET i == new_pbm(encoding, width, height)
        v == validate_u8_samples(i.info, samples, checks)
    IN  IF i.res.tag # "Ok" THEN [writer |-> writer, res |-> i.res]
        ELSE IF v.tag # "Ok" THEN [writer |-> writer, res |-> v]
        ELSE IF encoding = "Raw" THEN pbm_write_raw(writer, i.info, samples)
        ELSE pbm_write_plain(writer, i.info, samples)

\* the NetpbmError the ? operator makes of an io::Error
from_io_error == [tag |-> "IOOperationFailed", info |-> << "io::Error", << >> >>]

Min(a, b) == IF a < b THEN a ELSE b

\* Write::write_all on a sink that fails once it has taken `accepts` bytes
write_all_failing(writer, buf, accepts) ==
    [ writer |-> writer \o SubSeq(buf, 1, Min(accepts, Len(buf))),
      res |-> from_io_error, write_calls |-> 1 ]

\* a write that calls write_all a second time when the first call fails
pbm_write_failing_retry(writer, encoding, width, height, samples, checks, accepts) ==
    LET i   == new_pbm(encoding, width, height)
        v   == validate_u8_samples(i.info, samples, checks)
        buf == pbm_build_header(i.info) \o
                  (IF encoding = "Raw" THEN packed_bytes(samples) ELSE pbm_build_lines(samples))
        w1  == write_all_failing(writer, buf, accepts)
        w2  == write_all_failing(w1.writer, buf, accepts)
    IN  IF i.res.tag # "Ok" THEN [writer |-> writer, res |-> i.res, write_calls |-> 0]
        ELSE IF v.tag # "Ok" THEN [writer |-> writer, res |-> v, write_calls |-> 0]
        ELSE [w2 EXCEPT !.write_calls = 2]

\* Encoder::write on a sink whose write_all fails
pbm_write_failing(writer, encoding, width, height, samples, checks, accepts) ==
    LET i   == new_pbm(encoding, width, height)
        v   == validate_u8_samples(i.info, samples, checks)
        buf == pbm_build_header(i.info) \o
                  (IF encoding = "Raw" THEN packed_bytes(samples) ELSE pbm_build_lines(samples))
    IN  IF i.res.tag # "Ok" THEN [writer |-> writer, res |-> i.res, write_calls |-> 0]
        ELSE IF v.tag # "Ok" THEN [writer |-> writer, res |-> v, write_calls |-> 0]
        ELSE write_all_failing(writer, buf, accepts)

(***************************************************************************)
(* PGM encoder (pgm.rs).                                                   *)
(***************************************************************************)
\* a header with the width and the height in the other order
pgm_build_header_swapped(info) ==
    to_bytes(magic(info.format)) \o << 10 >>
        \o to_string(info.height) \o << 32 >> \o to_string(info.width)
        \o << 32 >> \o to_string(info.bit_depth) \o << 10 >>

pgm_build_header(info) ==
    to_bytes(magic(info.format)) \o << 10 >>
        \o to_string(info.width) \o << 32 >> \o to_string(info.height)
        \o << 32 >> \o to_string(info.bit_depth) \o << 10 >>

\* the low byte first
to_le_bytes(s) == << s % 256, s \div 256 >>

\* two bytes that keep only the low byte
to_low_bytes(s) == << 0, s % 256 >>

to_be_bytes(s) == << s \div 256, s % 256 >>

pgm_write_raw_u8(writer, info, samples) ==
    [ writer |-> writer \o (pgm_build_header(info) \o samples), res |-> Ok ]

build_lines_u8(samples) ==
    Flatten(Map(samples, LAMBDA s : to_string(s) \o << 10 >>))

build_lines_u16(samples) ==
    Flatten(Map(samples, LAMBDA s : to_string(s) \o << 10 >>))

pgm_write_plain_u8(writer, info, samples) ==
    [ writer |-> writer \o (pgm_build_header(info) \o build_lines_u8(samples)), res |-> Ok ]

pgm_write_raw_u16(writer, info, samples) ==
    [ writer |-> writer \o (pgm_build_header(info) \o
                    (IF ~is_multi_byte(info.bit_depth)
                     THEN Map(samples, LAMBDA s : s % 256)
                     ELSE Flatten(Map(samples, to_be_bytes)))),
      res    |-> Ok ]

pgm_write_plain_u16(writer, info, samples) ==
    [ writer |-> writer \o (pgm_build_header(info) \o build_lines_u16(samples)), res |-> Ok ]

pgm_write(writer, encoding, width, height, bit_depth, samples, checks) ==
    LET i == new_pgm(encoding, width, height, bit_depth)
        v == validate_u8_samples(i.info, samples, checks)
    IN  IF i.res.tag # "Ok" THEN [writer |-> writer, res |-> i.res]
        ELSE IF v.tag # "Ok" THEN [writer |-> writer, res |-> v]
        ELSE IF encoding = "Raw" THEN pgm_write_raw_u8(writer, i.info, samples)
        ELSE pgm_write_plain_u8(writer, i.info, samples)

pgm_write_wide(writer, encoding, width, height, bit_depth, samples, checks) ==
    LET i == new_pgm(encoding, width, height, bit_depth)
        v == validate_u16_samples(i.info, samples, checks)
    IN  IF i.res.tag # "Ok" THEN [writer |-> writer, res |-> i.res]
        ELSE IF v.tag # "Ok" THEN [writer |-> writer, res |-> v]
        ELSE IF encoding = "Raw" THEN pgm_write_raw_u16(writer, i.info, samples)
        ELSE pgm_write_plain_u16(writer, i.info, samples)

(***************************************************************************)
(* PAM encoder (pam.rs).                                                   *)
(***************************************************************************)
\* a header that closes with ENDHDR before its TUPLTYPE lines
pam_build_header_endhdr_first(info, type_info) ==
    LET header == to_bytes(magic(info.format)) \o << 10 >>
                    \o << 87, 73, 68, 84, 72, 32 >> \o to_string(info.width) \o << 10 >>
                    \o << 72, 69, 73, 71, 72, 84, 32 >> \o to_string(info.height) \o << 10 >>
                    \o << 68, 69, 80, 84, 72, 32 >> \o to_string(info.channels) \o << 10 >>
                    \o << 77, 65, 88, 86, 65, 76, 32 >> \o to_string(info.bit_depth) \o << 10 >>
        tupl   == IF type_info.kind = "Info"
                  THEN Flatten(Map(type_info.tags,
                            LAMBDA t : << 84, 85, 80, 76, 84, 89, 80, 69, 32 >> \o t \o << 10 >>))
                  ELSE << >>
    IN  header \o << 69, 78, 68, 72, 68, 82, 10 >> \o tupl

pam_build_header(info, type_info) ==
    LET header == to_bytes(magic(info.format)) \o << 10 >>
                    \o << 87, 73, 68, 84, 72, 32 >> \o to_string(info.width) \o << 10 >>
                    \o << 72, 69, 73, 71, 72, 84, 32 >> \o to_string(info.height) \o << 10 >>
                    \o << 68, 69, 80, 84, 72, 32 >> \o to_string(info.channels) \o << 10 >>
                    \o << 77, 65, 88, 86, 65, 76, 32 >> \o to_string(info.bit_depth) \o << 10 >>
        tupl   == IF type_info.kind = "Info"
                  THEN Flatten(Map(type_info.tags,
                            LAMBDA t : << 84, 85, 80, 76, 84, 89, 80, 69, 32 >> \o t \o << 10 >>))
                  ELSE << >>
    IN  header \o tupl \o << 69, 78, 68, 72, 68, 82, 10 >>

pam_write(writer, width, height, bit_depth, channels, type_info, samples, checks) ==
    LET i == new_pam(width, height, bit_depth, channels)
        v == validate_u8_samples(i.info, samples, checks)
    IN  IF i.res.tag # "Ok" THEN [writer |-> writer, res |-> i.res]
        ELSE IF v.tag # "Ok" THEN [writer |-> writer, res |-> v]
        ELSE [ writer |-> writer \o (pam_build_header(i.info, type_info) \o samples),
               res    |-> Ok ]

pam_write_wide(writer, width, height, bit_depth, channels, type_info, samples, checks) ==
    LET i == new_pam(width, height, bit_depth, channels)
        v == validate_u16_samples(i.info, samples, checks)
    IN  IF i.res.tag # "Ok" THEN [writer |-> writer, res |-> i.res]
        ELSE IF v.tag # "Ok" THEN [writer |-> writer, res |-> v]
        ELSE [ writer |-> writer \o (pam_build_header(i.info, type_info) \o
                            (IF ~is_multi_byte(i.info.bit_depth)
                             THEN Map(samples, LAMBDA s : s % 256)
                             ELSE Flatten(Map(samples, to_be_bytes)))),
               res    |-> Ok ]

(***************************************************************************)
(* The PBM decoder (pbm.rs).  reader is the whole input, buf the caller's  *)
(* buffer.  read returns the result and the buffer as the call leaves it.  *)
(***************************************************************************)
\* MagicNumber::from_bytes: the magic number the two bytes spell, if any
from_bytes(bytes) ==
    IF \E m \in MagicNumber : to_bytes(m) = bytes
    THEN [some |-> TRUE,  magic |-> CHOOSE m \in MagicNumber : to_bytes(m) = bytes]
    ELSE [some |-> FALSE, magic |-> "P1"]

read_raw(img_buf, buf) ==
    LET i == new_pbm("Raw", 1, 1)
    IN  [ res |-> IF i.res.tag = "Ok" THEN [tag |-> "Ok", info |-> i.info] ELSE i.res,
          buf |-> buf ]

read_plain(img_buf, buf) ==
    LET i == new_pbm("Plain", 1, 1)
    IN  [ res |-> IF i.res.tag = "Ok" THEN [tag |-> "Ok", info |-> i.info] ELSE i.res,
          buf |-> buf ]

\* a read that takes P1 for a raw bitmap
read_p1_as_raw(reader, buf) ==
    LET img_buf == reader
    IN  IF Len(img_buf) < 2 THEN [res |-> Panic, buf |-> buf]
        ELSE LET magic_number == SubSeq(img_buf, 1, 2)
                 m == from_bytes(magic_number)
             IN  IF m.some /\ m.magic \in {magic("PBMRaw"), magic("PBMPlain")}
                 THEN read_raw(img_buf, buf)
                 ELSE IF m.some
                      THEN [ res |-> [tag  |-> "IOOperationFailed",
                                      info |-> << "Invalid magic number: ",
                                                  to_bytes(m.magic) >>],
                             buf |-> buf ]
                      ELSE [ res |-> [tag  |-> "IOOperationFailed",
                                      info |-> << "Unexpected bytes at magic number position: ",
                                                  magic_number >>],
                             buf |-> buf ]

read(reader, buf) ==
    LET img_buf == reader
    IN  IF Len(img_buf) < 2 THEN [res |-> Panic, buf |-> buf]
        ELSE LET magic_number == SubSeq(img_buf, 1, 2)
                 m == from_bytes(magic_number)
             IN  IF m.some /\ m.magic = magic("PBMRaw") THEN read_raw(img_buf, buf)
                 ELSE IF m.some /\ m.magic = magic("PBMPlain") THEN read_plain(img_buf, buf)
                 ELSE IF m.some
                      THEN [ res |-> [tag  |-> "IOOperationFailed",
                                      info |-> << "Invalid magic number: ",
                                                  to_bytes(m.magic) >>],
                             buf |-> buf ]
                      ELSE [ res |-> [tag  |-> "IOOperationFailed",
                                      info |-> << "Unexpected bytes at magic number position: ",
                                                  magic_number >>],
                             buf |-> buf ]

\* Decoder::read on a source whose read_to_end fails
read_failing(reader, buf) == [res |-> from_io_error, buf |-> buf]

(***************************************************************************)
(* State.                                                                  *)
(***************************************************************************)
(***************************************************************************)
(* PPM images (ppm.rs), built on the fields of fields.rs.                  *)
(***************************************************************************)
\* colors.len() as u32 != width.value() * height.value()
length_differs(colors, width, height) ==
    ToU32(Len(colors)) # MulU32(ToU32(width), ToU32(height)).val

\* the first channel above the bit depth, colors in order, channels in order
find_oversized(colors, bit_depth) ==
    LET over == { p \in (1..Len(colors)) \X (1..3) : colors[p[1]][p[2]] > value(bit_depth) }
        first == CHOOSE p \in over :
                    \A q \in over : p[1] < q[1] \/ (p[1] = q[1] /\ p[2] <= q[2])
    IN  IF over = {} THEN [tag |-> "None"]
        ELSE [tag |-> "Some", channel |-> colors[first[1]][first[2]]]

PpmImage(colors, width, height, bit_depth) ==
    [ colors |-> colors, width |-> width, height |-> height, bit_depth |-> bit_depth ]

from_colors(colors, width, height, bit_depth, checks) ==
    LET w == fields_ImageDim_new(width)
        h == fields_ImageDim_new(height)
        b == fields_BitDepth_new(bit_depth)
    IN  IF w.tag # "Ok" THEN w
        ELSE IF h.tag # "Ok" THEN h
        ELSE IF checks /\ MulU32(ToU32(width), ToU32(height)).overflow THEN Panic
        ELSE IF length_differs(colors, w.self, h.self)
             THEN [ tag |-> "MalformedInitArray", length |-> Len(colors),
                    width |-> w.self, height |-> h.self ]
        ELSE IF b.tag # "Ok" THEN b
        ELSE IF find_oversized(colors, b.self).tag = "Some"
             THEN [ tag |-> "OversizedChannel",
                    channel |-> find_oversized(colors, b.self).channel,
                    bit_depth |-> b.self ]
        ELSE [ tag |-> "Ok", image |-> PpmImage(colors, w.self, h.self, b.self) ]

\* colors.iter().map(|color| color.iter().max().unwrap()).max(): None when empty
max_channel(colors) ==
    IF colors = << >> THEN [tag |-> "None"]
    ELSE [ tag |-> "Some",
           channel |-> CHOOSE c \in { colors[i][j] : i \in 1..Len(colors), j \in 1..3 } :
                          \A i \in 1..Len(colors), j \in 1..3 : colors[i][j] <= c ]

with_inferred_bd(colors, width, height, checks) ==
    LET w == fields_ImageDim_new(width)
        h == fields_ImageDim_new(height)
    IN  IF w.tag # "Ok" THEN w
        ELSE IF h.tag # "Ok" THEN h
        ELSE IF checks /\ MulU32(ToU32(width), ToU32(height)).overflow THEN Panic
        ELSE IF length_differs(colors, w.self, h.self)
             THEN [ tag |-> "MalformedInitArray", length |-> Len(colors),
                    width |-> w.self, height |-> h.self ]
        ELSE IF max_channel(colors).tag = "None" THEN Panic
        ELSE LET b == fields_BitDepth_new(max_channel(colors).channel)
             IN  IF b.tag # "Ok" THEN b
                 ELSE [ tag |-> "Ok", image |-> PpmImage(colors, w.self, h.self, b.self) ]

(***************************************************************************)
(* PPM files (ppm.rs): a raw file is a list of images, a plain file holds  *)
(* one image.                                                              *)
(***************************************************************************)
PpmRaw_new == [ images |-> << >> ]

\* an image put in front of the list
add_image_front(self, image) == [ self EXCEPT !.images = << image >> \o @ ]

add_image(self, image) == [ self EXCEPT !.images = Append(@, image) ]

iter(self) == self.images

PpmPlain_new(image) == [ image |-> image ]

image_ref(self) == self.image

new_raw == [ format |-> "Raw", file |-> PpmRaw_new ]

new_plain(image) == [ format |-> "Plain", file |-> PpmPlain_new(image) ]

VARIABLES
    checks,     \* the build's overflow-checks setting
    encoder,    \* the module of the Encoder in use: "pbm", "pgm" or "pam"
    writer,     \* Encoder.writer: the bytes the sink has received
    images,     \* the calls that returned Ok, in call order
    call,       \* the last write call: arguments, writer before it, result
    dec,        \* Decoder::read: the caller's buffer and the result
    val,        \* Info::validate_*: the Info, the samples and the result
    io          \* the sink and the source: whether they fail, and the calls made on them

vars == << checks, encoder, writer, images, call, dec, val, io >>

(***************************************************************************)
(* Inputs.                                                                 *)
(***************************************************************************)
SeqsUpTo(S, n) == UNION { [1..k -> S] : k \in 0..n }

Dims        == (0..MaxDim) \cup {WrapDim}
Sizes       == Dims \X Dims
U8Vals      == {0, 1, 255}
U16Vals     == {0, 1, 256}
PgmDepths   == {0, 1, 255, 256}
PamDepths   == {0, 1, 255}
TagRGB      == << 82, 71, 66 >>
TagA        == << 65 >>
TypeInfos   == { TypeInfoEmpty, TypeInfoInfo(<< >>), TypeInfoInfo(<< TagRGB >>),
                 TypeInfoInfo(<< TagRGB, TagA >>) }

\* the calls of a multi-image stream are drawn from smaller sets
StreamSizes     == { << 0, 1 >>, << 1, 0 >>, << 1, 1 >>, << WrapDim, WrapDim >> }
StreamU8        == { << >>, << 0 >>, << 1 >>, << 255 >> }
StreamU16       == { << >>, << 0 >>, << 1 >>, << 256 >> }
StreamDepths    == {0, 1, 256}
StreamTypeInfos == { TypeInfoEmpty, TypeInfoInfo(<< TagRGB >>) }

Args(op, encoding, width, height, bit_depth, channels, type_info, samples) ==
    [ op |-> op, encoding |-> encoding, width |-> width, height |-> height,
      bit_depth |-> bit_depth, channels |-> channels, type_info |-> type_info,
      samples |-> samples ]

\* D is a set of <<width, height>> pairs
PbmArgs(D, S) ==
    { Args("pbm_write", e, d[1], d[2], 1, 1, TypeInfoEmpty, s) :
        e \in EncodingType, d \in D, s \in S }
PgmArgs(D, B, S) ==
    { Args("pgm_write", e, d[1], d[2], b, 1, TypeInfoEmpty, s) :
        e \in EncodingType, d \in D, b \in B, s \in S }
PgmWideArgs(D, B, S) ==
    { Args("pgm_write_wide", e, d[1], d[2], b, 1, TypeInfoEmpty, s) :
        e \in EncodingType, d \in D, b \in B, s \in S }
PamArgs(D, B, C, T, S) ==
    { Args("pam_write", "Raw", d[1], d[2], b, c, t, s) :
        d \in D, b \in B, c \in C, t \in T, s \in S }
PamWideArgs(D, B, C, T, S) ==
    { Args("pam_write_wide", "Raw", d[1], d[2], b, c, t, s) :
        d \in D, b \in B, c \in C, t \in T, s \in S }

NoArgs == Args("none", "Raw", 0, 0, 0, 0, TypeInfoEmpty, << >>)

CallOf(a, n, before, res) ==
    [ args |-> a, n |-> n, before |-> before, res |-> res ]

NoCall == CallOf(NoArgs, 0, << >>, [tag |-> "None"])
NoDec  == [ buf |-> << >>, res |-> [tag |-> "NotRun"] ]
NoVal  == [ info |-> MkInfo("PBMRaw", "Raw", 1, 1, 1, 1), wide |-> FALSE,
            samples |-> << >>, res |-> [tag |-> "None"] ]

\* a sink and a source that do not fail, before any call on them
NoFaults == [ sink |-> [fails |-> FALSE, accepts |-> 0], source_fails |-> FALSE,
              write_calls |-> 0, read_calls |-> 0 ]

(***************************************************************************)
(* The effect of one write call with arguments a that returned r.          *)
(***************************************************************************)
Commit(a, r) ==
    /\ writer' = r.writer
    /\ call'   = CallOf(a, call.n + 1, writer, r.res)
    /\ images' = IF r.res.tag = "Ok" THEN Append(images, a) ELSE images
    /\ io' = [io EXCEPT !.write_calls = IF r.res.tag = "Ok" THEN @ + 1 ELSE @]
    /\ UNCHANGED << checks, encoder, dec, val >>

PbmCall(a) ==
    Commit(a, pbm_write(writer, a.encoding, a.width, a.height, a.samples, checks))
PgmCall(a) ==
    Commit(a, pgm_write(writer, a.encoding, a.width, a.height, a.bit_depth, a.samples, checks))
PgmWideCall(a) ==
    Commit(a, pgm_write_wide(writer, a.encoding, a.width, a.height, a.bit_depth, a.samples,
                             checks))
PamCall(a) ==
    Commit(a, pam_write(writer, a.width, a.height, a.bit_depth, a.channels, a.type_info,
                        a.samples, checks))
PamWideCall(a) ==
    Commit(a, pam_write_wide(writer, a.width, a.height, a.bit_depth, a.channels, a.type_info,
                             a.samples, checks))

CanCall == call.n < MaxCalls /\ call.res.tag # "Panic"

(***************************************************************************)
(* Spec: a stream of write calls on one encoder.                           *)
(***************************************************************************)
Init ==
    /\ checks \in BOOLEAN
    /\ encoder \in {"pbm", "pgm", "pam"}
    /\ writer = << >>
    /\ images = << >>
    /\ call = NoCall
    /\ dec = NoDec
    /\ val = NoVal
    /\ io = NoFaults

PbmWrite ==
    /\ encoder = "pbm" /\ CanCall
    /\ \E a \in PbmArgs(StreamSizes, StreamU8) : PbmCall(a)

PgmWrite ==
    /\ encoder = "pgm" /\ CanCall
    /\ \E a \in PgmArgs(StreamSizes, StreamDepths, StreamU8) : PgmCall(a)

PgmWriteWide ==
    /\ encoder = "pgm" /\ CanCall
    /\ \E a \in PgmWideArgs(StreamSizes, StreamDepths, StreamU16) : PgmWideCall(a)

PamWrite ==
    /\ encoder = "pam" /\ CanCall
    /\ \E a \in PamArgs(StreamSizes, {0, 1}, {0, 1}, StreamTypeInfos, StreamU8) : PamCall(a)

PamWriteWide ==
    /\ encoder = "pam" /\ CanCall
    /\ \E a \in PamWideArgs(StreamSizes, {0, 256}, {0, 1}, StreamTypeInfos, StreamU16) : PamWideCall(a)

Next == PbmWrite \/ PgmWrite \/ PgmWriteWide \/ PamWrite \/ PamWriteWide

Spec == Init /\ [][Next]_vars

(***************************************************************************)
(* SpecImage: one write call on a new encoder, over all arguments within   *)
(* the bounds.  Init draws the arguments, the action makes the call.       *)
(***************************************************************************)
Pending == [tag |-> "Pending"]

ImageOps == { "pbm_write", "pgm_write", "pgm_write_wide", "pam_write", "pam_write_wide" }

\* the arguments entry point op is called with
ImageArgs(op) ==
    CASE op = "pbm_write" -> PbmArgs(Sizes, SeqsUpTo(U8Vals, MaxLen))
      [] op = "pgm_write" -> PgmArgs(Sizes, PgmDepths, SeqsUpTo(U8Vals, MaxLen))
      [] op = "pgm_write_wide" -> PgmWideArgs(Sizes, PgmDepths, SeqsUpTo(U16Vals, MaxLen))
      [] op = "pam_write" ->
            PamArgs(Sizes, PamDepths, 0..MaxDim, TypeInfos, SeqsUpTo(U8Vals, MaxLen))
      [] op = "pam_write_wide" ->
            PamWideArgs(Sizes, PgmDepths, 0..MaxDim, TypeInfos, SeqsUpTo(U16Vals, MaxLen))

EncoderOf(op) ==
    CASE op = "pbm_write" -> "pbm"
      [] op \in {"pgm_write", "pgm_write_wide"} -> "pgm"
      [] op \in {"pam_write", "pam_write_wide"} -> "pam"

InitImage ==
    /\ checks \in BOOLEAN
    /\ \E op \in ImageOps : \E a \in ImageArgs(op) :
          /\ call = CallOf(a, 0, << >>, Pending)
          /\ encoder = EncoderOf(a.op)
    /\ writer = << >>
    /\ images = << >>
    /\ dec = NoDec
    /\ val = NoVal
    /\ io = NoFaults

ApplyPbmWrite ==
    /\ call.res.tag = "Pending" /\ call.args.op = "pbm_write"
    /\ PbmCall(call.args)

ApplyPgmWrite ==
    /\ call.res.tag = "Pending" /\ call.args.op = "pgm_write"
    /\ PgmCall(call.args)

ApplyPgmWriteWide ==
    /\ call.res.tag = "Pending" /\ call.args.op = "pgm_write_wide"
    /\ PgmWideCall(call.args)

ApplyPamWrite ==
    /\ call.res.tag = "Pending" /\ call.args.op = "pam_write"
    /\ PamCall(call.args)

ApplyPamWriteWide ==
    /\ call.res.tag = "Pending" /\ call.args.op = "pam_write_wide"
    /\ PamWideCall(call.args)

NextImage ==
    ApplyPbmWrite \/ ApplyPgmWrite \/ ApplyPgmWriteWide \/ ApplyPamWrite \/ ApplyPamWriteWide

SpecImage == InitImage /\ [][NextImage]_vars

(***************************************************************************)
(* SpecValidate: Info::validate_u8_samples and validate_u16_samples on an  *)
(* Info built by one of the constructors.                                  *)
(***************************************************************************)
ValDims   == (1..MaxDim) \cup {WrapDim}
ValDepths == {1, 255, 256}

Infos ==
    { new_pbm("Raw", w, h).info : w \in ValDims, h \in ValDims }
      \cup { new_pgm("Plain", w, h, b).info : w \in ValDims, h \in ValDims, b \in ValDepths }
      \cup { new_ppm("Raw", w, h, b).info : w \in ValDims, h \in ValDims, b \in ValDepths }
      \cup { new_pam(w, h, b, c).info :
               w \in ValDims, h \in ValDims, b \in ValDepths, c \in 1..MaxDim }

InitValidate ==
    /\ checks \in BOOLEAN
    /\ io = NoFaults
    /\ encoder = "pbm"
    /\ writer = << >>
    /\ images = << >>
    /\ call = NoCall
    /\ dec = NoDec
    /\ \E i \in Infos, wide \in BOOLEAN :
         \E s \in SeqsUpTo(IF wide THEN U16Vals ELSE U8Vals, ValMaxLen) :
            val = [ info |-> i, wide |-> wide, samples |-> s, res |-> Pending ]

ValidateU8 ==
    /\ val.res.tag = "Pending" /\ ~val.wide
    /\ val' = [val EXCEPT !.res = validate_u8_samples(val.info, val.samples, checks)]
    /\ UNCHANGED << checks, encoder, writer, images, call, dec, io >>

ValidateU16 ==
    /\ val.res.tag = "Pending" /\ val.wide
    /\ val' = [val EXCEPT !.res = validate_u16_samples(val.info, val.samples, checks)]
    /\ UNCHANGED << checks, encoder, writer, images, call, dec, io >>

NextValidate == ValidateU8 \/ ValidateU16

SpecValidate == InitValidate /\ [][NextValidate]_vars

(***************************************************************************)
(* SpecRoundTrip: one PBM image is written, then a Decoder reads the bytes *)
(* the sink received into the caller's buffer.                             *)
(***************************************************************************)
InitRoundTrip ==
    /\ checks \in BOOLEAN
    /\ encoder = "pbm"
    /\ writer = << >>
    /\ images = << >>
    /\ \E a \in PbmArgs(Sizes, SeqsUpTo(U8Vals, MaxLen)) : call = CallOf(a, 0, << >>, Pending)
    /\ \E b \in SeqsUpTo({0}, MaxLen) : dec = [ buf |-> b, res |-> [tag |-> "NotRun"] ]
    /\ val = NoVal
    /\ io = NoFaults

DecoderRead ==
    /\ call.res.tag = "Ok"
    /\ dec.res.tag = "NotRun"
    /\ dec' = read(writer, dec.buf)
    /\ io' = [io EXCEPT !.read_calls = @ + 1]
    /\ UNCHANGED << checks, encoder, writer, images, call, val >>

NextRoundTrip == ApplyPbmWrite \/ DecoderRead

SpecRoundTrip == InitRoundTrip /\ [][NextRoundTrip]_vars

(***************************************************************************)
(* SpecLong: one PBM write of a bitmap long enough to span several bytes   *)
(* and several text lines.  The samples are valid: width * height of them, *)
(* all 0 but at most one, or alternating 1, 0, 1, 0, ...                   *)
(***************************************************************************)
LongSizes == (1..MaxLongWidth) \X (1..MaxLongHeight)

LongSamples(n) ==
    { [i \in 1..n |-> IF i = p THEN 1 ELSE 0] : p \in 0..n }
        \cup { [i \in 1..n |-> i % 2] }

InitLong ==
    /\ checks \in BOOLEAN
    /\ encoder = "pbm"
    /\ writer = << >>
    /\ images = << >>
    /\ \E e \in EncodingType : \E d \in LongSizes : \E s \in LongSamples(d[1] * d[2]) :
          call = CallOf(Args("pbm_write", e, d[1], d[2], 1, 1, TypeInfoEmpty, s),
                        0, << >>, Pending)
    /\ dec = NoDec
    /\ val = NoVal
    /\ io = NoFaults

WriteLong ==
    /\ call.res.tag = "Pending" /\ call.args.op = "pbm_write"
    /\ PbmCall(call.args)

NextLong == WriteLong

SpecLong == InitLong /\ [][NextLong]_vars

(***************************************************************************)
(* SpecDecode: a Decoder reads an arbitrary input.  writer holds the bytes *)
(* of the stream the Decoder's reader yields; no encoder call is made.     *)
(***************************************************************************)
\* 'P', the digits '1'..'8' and 'p'
InputBytes == {80, 112} \cup (49..56)

InitDecode ==
    /\ checks \in BOOLEAN
    /\ encoder = "pbm"
    /\ writer \in SeqsUpTo(InputBytes, MaxInput)
    /\ images = << >>
    /\ call = NoCall
    /\ dec = NoDec
    /\ val = NoVal
    /\ io = NoFaults

ReadInput ==
    /\ call.res.tag = "None"
    /\ dec.res.tag = "NotRun"
    /\ dec' = read(writer, dec.buf)
    /\ io' = [io EXCEPT !.read_calls = @ + 1]
    /\ UNCHANGED << checks, encoder, writer, images, call, val >>

NextDecode == ReadInput

SpecDecode == InitDecode /\ [][NextDecode]_vars

(***************************************************************************)
(* SpecTransport: one PBM write on a sink that may fail, then one          *)
(* Decoder::read of the sink's bytes from a source that may fail.          *)
(***************************************************************************)
TransportSizes == { << 0, 1 >>, << 1, 1 >>, << 1, 2 >> }

InitTransport ==
    /\ checks \in BOOLEAN
    /\ encoder = "pbm"
    /\ writer = << >>
    /\ images = << >>
    /\ \E a \in PbmArgs(TransportSizes, SeqsUpTo(U8Vals, MaxLen)) :
          call = CallOf(a, 0, << >>, Pending)
    /\ dec = NoDec
    /\ val = NoVal
    /\ \E f \in BOOLEAN, k \in 0..MaxAccepted, g \in BOOLEAN :
          io = [ sink |-> [fails |-> f, accepts |-> IF f THEN k ELSE 0], source_fails |-> g,
                 write_calls |-> 0, read_calls |-> 0 ]

WriteToSink ==
    /\ call.res.tag = "Pending" /\ call.args.op = "pbm_write"
    /\ ~io.sink.fails
    /\ PbmCall(call.args)

WriteToFailingSink ==
    /\ call.res.tag = "Pending" /\ call.args.op = "pbm_write"
    /\ io.sink.fails
    /\ LET a == call.args
           r == pbm_write_failing(writer, a.encoding, a.width, a.height, a.samples, checks,
                                  io.sink.accepts)
       IN  /\ writer' = r.writer
           /\ call'   = CallOf(a, call.n + 1, writer, r.res)
           /\ io'     = [io EXCEPT !.write_calls = @ + r.write_calls]
    /\ UNCHANGED << checks, encoder, images, dec, val >>

ReadFromSource ==
    /\ call.res.tag # "Pending"
    /\ dec.res.tag = "NotRun"
    /\ dec' = IF io.source_fails THEN read_failing(writer, dec.buf) ELSE read(writer, dec.buf)
    /\ io' = [io EXCEPT !.read_calls = @ + 1]
    /\ UNCHANGED << checks, encoder, writer, images, call, val >>

NextTransport == WriteToSink \/ WriteToFailingSink \/ ReadFromSource

SpecTransport == InitTransport /\ [][NextTransport]_vars

(***************************************************************************)
(* SpecFields: one call of a field constructor (fields.rs: u32 arguments;  *)
(* formats.rs: a u16 bit depth, u32 dimensions and channel depths),        *)
(* followed by value() on the field it built.                              *)
(***************************************************************************)
FieldVals ==
    (0..MaxField) \cup {255, 256, 65534, 65535, 65536, 65537, 100000, 1000000, 2147483647}

U16FieldVals == { v \in FieldVals : v < 65536 }

FieldCalls ==
    { [ctor |-> c, arg |-> v] :
        c \in { "fields::BitDepth", "fields::ImageDim", "fields::ChannelDepth",
                "formats::ImageDim", "formats::ChannelDepth" },
        v \in FieldVals }
      \cup { [ctor |-> "formats::BitDepth", arg |-> v] : v \in U16FieldVals }

InitFields ==
    /\ checks \in BOOLEAN
    /\ encoder = "pbm"
    /\ writer = << >>
    /\ images = << >>
    /\ call = NoCall
    /\ dec = NoDec
    /\ io = NoFaults
    /\ \E c \in FieldCalls :
          val = [ ctor |-> c.ctor, arg |-> c.arg, res |-> Pending, value |-> 0 ]

\* the constructor returned r; value() is read from the field of an Ok
Construct(r) ==
    /\ val' = [val EXCEPT !.res = r, !.value = IF r.tag = "Ok" THEN value(r.self) ELSE 0]
    /\ UNCHANGED << checks, encoder, writer, images, call, dec, io >>

FieldsBitDepthNew ==
    /\ val.res.tag = "Pending" /\ val.ctor = "fields::BitDepth"
    /\ Construct(fields_BitDepth_new(val.arg))

FieldsImageDimNew ==
    /\ val.res.tag = "Pending" /\ val.ctor = "fields::ImageDim"
    /\ Construct(fields_ImageDim_new(val.arg))

FieldsChannelDepthNew ==
    /\ val.res.tag = "Pending" /\ val.ctor = "fields::ChannelDepth"
    /\ Construct(fields_ChannelDepth_new(val.arg))

FormatsBitDepthNew ==
    /\ val.res.tag = "Pending" /\ val.ctor = "formats::BitDepth"
    /\ Construct(Built(BitDepth_new(val.arg), val.arg))

FormatsImageDimNew ==
    /\ val.res.tag = "Pending" /\ val.ctor = "formats::ImageDim"
    /\ Construct(Built(ImageDim_new(val.arg), val.arg))

FormatsChannelDepthNew ==
    /\ val.res.tag = "Pending" /\ val.ctor = "formats::ChannelDepth"
    /\ Construct(Built(ChannelDepth_new(val.arg), val.arg))

NextFields ==
    \/ FieldsBitDepthNew \/ FieldsImageDimNew \/ FieldsChannelDepthNew
    \/ FormatsBitDepthNew \/ FormatsImageDimNew \/ FormatsChannelDepthNew

SpecFields == InitFields /\ [][NextFields]_vars

(***************************************************************************)
(* SpecInfo: one call of an Info constructor.  val holds the constructor,  *)
(* its arguments (those it does not take are 0) and what it returned.      *)
(***************************************************************************)
InfoDepths == PgmDepths \cup {65535}

InfoCall(ctor, encoding, width, height, bit_depth, channels) ==
    [ ctor |-> ctor, encoding |-> encoding, width |-> width, height |-> height,
      bit_depth |-> bit_depth, channels |-> channels, res |-> Pending,
      info |-> MkInfo("PBMRaw", "Raw", 0, 0, 0, 0) ]

InfoCalls(ctor) ==
    CASE ctor = "new_pbm" ->
            { InfoCall(ctor, e, d[1], d[2], 0, 0) : e \in EncodingType, d \in Sizes }
      [] ctor \in {"new_pgm", "new_ppm"} ->
            { InfoCall(ctor, e, d[1], d[2], b, 0) :
                e \in EncodingType, d \in Sizes, b \in InfoDepths }
      [] ctor = "new_pam" ->
            { InfoCall(ctor, "Raw", d[1], d[2], b, c) :
                d \in Sizes, b \in InfoDepths, c \in Dims }

InitInfo ==
    /\ checks \in BOOLEAN
    /\ encoder = "pbm"
    /\ writer = << >>
    /\ images = << >>
    /\ call = NoCall
    /\ dec = NoDec
    /\ io = NoFaults
    /\ \E ctor \in {"new_pbm", "new_pgm", "new_ppm", "new_pam"} : val \in InfoCalls(ctor)

Returned(r) ==
    /\ val' = [val EXCEPT !.res = r.res, !.info = r.info]
    /\ UNCHANGED << checks, encoder, writer, images, call, dec, io >>

NewPbm ==
    /\ val.res.tag = "Pending" /\ val.ctor = "new_pbm"
    /\ Returned(new_pbm(val.encoding, val.width, val.height))

NewPgm ==
    /\ val.res.tag = "Pending" /\ val.ctor = "new_pgm"
    /\ Returned(new_pgm(val.encoding, val.width, val.height, val.bit_depth))

NewPpm ==
    /\ val.res.tag = "Pending" /\ val.ctor = "new_ppm"
    /\ Returned(new_ppm(val.encoding, val.width, val.height, val.bit_depth))

NewPam ==
    /\ val.res.tag = "Pending" /\ val.ctor = "new_pam"
    /\ Returned(new_pam(val.width, val.height, val.bit_depth, val.channels))

NextInfo == NewPbm \/ NewPgm \/ NewPpm \/ NewPam

SpecInfo == InitInfo /\ [][NextInfo]_vars

(***************************************************************************)
(* SpecFormat: the queries on a NetpbmFormat.  val holds two formats and,  *)
(* once asked, their magic numbers, the magic numbers' bytes and is_pnm.   *)
(* asked holds the queries made so far.                                    *)
(***************************************************************************)
NotAsked == "NotAsked"

InitFormat ==
    /\ checks \in BOOLEAN
    /\ encoder = "pbm"
    /\ writer = << >>
    /\ images = << >>
    /\ call = NoCall
    /\ dec = NoDec
    /\ io = NoFaults
    /\ \E f \in NetpbmFormat, g \in NetpbmFormat :
          val = [ format |-> f, other |-> g,
                  magic |-> NotAsked, other_magic |-> NotAsked,
                  bytes |-> << >>, other_bytes |-> << >>,
                  is_pnm |-> FALSE, asked |-> {} ]

FormatMagic ==
    /\ "magic" \notin val.asked
    /\ val' = [val EXCEPT !.asked = @ \cup {"magic"},
                          !.magic = magic(val.format),
                          !.other_magic = magic(val.other),
                          !.bytes = to_bytes(magic(val.format)),
                          !.other_bytes = to_bytes(magic(val.other))]
    /\ UNCHANGED << checks, encoder, writer, images, call, dec, io >>

FormatIsPnm ==
    /\ "is_pnm" \notin val.asked
    /\ val' = [val EXCEPT !.is_pnm = is_pnm(val.format), !.asked = @ \cup {"is_pnm"}]
    /\ UNCHANGED << checks, encoder, writer, images, call, dec, io >>

NextFormat == FormatMagic \/ FormatIsPnm

SpecFormat == InitFormat /\ [][NextFormat]_vars

(***************************************************************************)
(* SpecPpmImage: one call of a PpmImage constructor.  val holds the        *)
(* constructor, its arguments and what it returned.                        *)
(***************************************************************************)
\* a height whose product with 3 is 2^32 + 2
ThirdOfWrap == (WrapDim \div 3) * WrapDim + (WrapDim \div 3) + 1

PpmSizes == Sizes \cup { << 3, ThirdOfWrap >> }

Triplets == { << 0, 0, 0 >>, << 0, 1, 0 >>, << 255, 0, 1 >>, << 1, 256, 0 >>,
              << 0, 0, 65535 >> }

PpmDepths == {0, 1, 255, 256, 65535, 65536}

InitPpmImage ==
    /\ checks \in BOOLEAN
    /\ encoder = "pbm"
    /\ writer = << >>
    /\ images = << >>
    /\ call = NoCall
    /\ dec = NoDec
    /\ io = NoFaults
    /\ \E colors \in SeqsUpTo(Triplets, MaxLen), d \in PpmSizes :
          \/ \E b \in PpmDepths :
                val = [ ctor |-> "from_colors", colors |-> colors, width |-> d[1],
                        height |-> d[2], bit_depth |-> b, res |-> Pending ]
          \/ val = [ ctor |-> "with_inferred_bd", colors |-> colors, width |-> d[1],
                     height |-> d[2], bit_depth |-> 0, res |-> Pending ]

FromColors ==
    /\ val.res.tag = "Pending" /\ val.ctor = "from_colors"
    /\ val' = [val EXCEPT !.res = from_colors(val.colors, val.width, val.height,
                                              val.bit_depth, checks)]
    /\ UNCHANGED << checks, encoder, writer, images, call, dec, io >>

WithInferredBd ==
    /\ val.res.tag = "Pending" /\ val.ctor = "with_inferred_bd"
    /\ val' = [val EXCEPT !.res = with_inferred_bd(val.colors, val.width, val.height,
                                                   checks)]
    /\ UNCHANGED << checks, encoder, writer, images, call, dec, io >>

NextPpmImage == FromColors \/ WithInferredBd

SpecPpmImage == InitPpmImage /\ [][NextPpmImage]_vars

(***************************************************************************)
(* SpecPpmFile: a PPM file from its construction on.  val is the file,     *)
(* images the images handed to it so far, dec what the last iter() or      *)
(* image_ref() gave and how many images had been handed over by then.      *)
(***************************************************************************)
\* three images of one pixel
FileImages ==
    { from_colors(<< t >>, 1, 1, 255, FALSE).image :
        t \in { << 0, 0, 0 >>, << 0, 1, 0 >>, << 255, 0, 1 >> } }

InitPpmFile ==
    /\ checks \in BOOLEAN
    /\ encoder = "pbm"
    /\ writer = << >>
    /\ call = NoCall
    /\ dec = NoDec
    /\ io = NoFaults
    /\ \/ val = new_raw /\ images = << >>
       \/ \E image \in FileImages : val = new_plain(image) /\ images = << image >>

AddImage ==
    /\ val.format = "Raw" /\ Len(val.file.images) < MaxImages
    /\ \E image \in FileImages :
          /\ val' = [val EXCEPT !.file = add_image(val.file, image)]
          /\ images' = Append(images, image)
    /\ UNCHANGED << checks, encoder, writer, call, dec, io >>

Iter ==
    /\ val.format = "Raw"
    /\ dec' = [ res |-> [tag |-> "Yielded", n |-> Len(images)], buf |-> iter(val.file) ]
    /\ UNCHANGED << checks, encoder, writer, images, call, val, io >>

ImageRef ==
    /\ val.format = "Plain"
    /\ dec' = [ res |-> [tag |-> "Yielded", n |-> Len(images)],
                buf |-> << image_ref(val.file) >> ]
    /\ UNCHANGED << checks, encoder, writer, images, call, val, io >>

NextPpmFile == AddImage \/ Iter \/ ImageRef

SpecPpmFile == InitPpmFile /\ [][NextPpmFile]_vars

(***************************************************************************)
(* Vocabulary of the properties.                                           *)
(***************************************************************************)
\* n is the exact (unbounded) product w * h * c
ProductIs(n, w, h, c) ==
    IF w = 0 \/ h = 0 \/ c = 0 THEN n = 0
    ELSE w <= n /\ h <= n /\ c <= n /\ w * h * c = n

\* the arguments of a write call describe an image: every field in range, one
\* sample per channel of every pixel, no sample above the bit depth
ValidArgs(a) ==
    /\ a.width > 0 /\ a.height > 0 /\ a.bit_depth > 0 /\ a.channels > 0
    /\ ProductIs(Len(a.samples), a.width, a.height, a.channels)
    /\ \A i \in 1..Len(a.samples) : a.samples[i] <= a.bit_depth

ValidationErrors ==
    { "InvalidImageDim", "InvalidBitDepth", "InvalidChannelDepth",
      "MalformedInitArray", "OversizedSample" }

Validated == val.res.tag \notin {"Pending", "None"}

SizeMatches ==
    ProductIs(Len(val.samples), val.info.width, val.info.height, val.info.channels)

(***************************************************************************)
(* C5: validate_u8_samples / validate_u16_samples fail with                *)
(* MalformedInitArray, carrying the actual sample count and the Info's     *)
(* width and height, whenever the sample count differs from                *)
(* width * height * channels; an oversized sample in a mis-sized buffer    *)
(* does not change that.                                                   *)
(***************************************************************************)
C5_SizeMismatchIsMalformedInitArray ==
    (Validated /\ ~SizeMatches) =>
        val.res = [ tag |-> "MalformedInitArray", data_size |-> Len(val.samples),
                    width |-> val.info.width, height |-> val.info.height ]

(***************************************************************************)
(* C6: when the sample count matches, validation returns Ok iff every      *)
(* sample is <= bit_depth, and otherwise OversizedSample with the Info's   *)
(* bit depth and the smallest flat index (from 0) of a sample above it.    *)
(***************************************************************************)
C6_OversizedSampleAtFirstOffset ==
    (Validated /\ SizeMatches) =>
        IF \A i \in 1..Len(val.samples) : val.samples[i] <= val.info.bit_depth
        THEN val.res = Ok
        ELSE /\ val.res.tag = "OversizedSample"
             /\ val.res.bit_depth = val.info.bit_depth
             /\ val.res.offset \in 0..(Len(val.samples) - 1)
             /\ val.samples[val.res.offset + 1] > val.info.bit_depth
             /\ \A j \in 1..val.res.offset : val.samples[j] <= val.info.bit_depth

\* three samples, the last two above the bit depth: offset 1 is reported
C6_Witness ==
    /\ Validated /\ SizeMatches
    /\ Len(val.samples) = 3
    /\ val.samples[1] <= val.info.bit_depth
    /\ val.samples[2] > val.info.bit_depth
    /\ val.samples[3] > val.info.bit_depth
    /\ val.res.tag = "OversizedSample"
    /\ val.res.offset = 1

(***************************************************************************)
(* C7: a write / write_wide call that fails field validation or sample     *)
(* validation writes no byte: the sink holds what it held before the call. *)
(***************************************************************************)
C7_ValidationFailureWritesNothing ==
    call.res.tag \in ValidationErrors => writer = call.before

\* a call rejected for an oversized sample, on a sink that already holds an image
C7_Witness ==
    /\ call.res.tag = "OversizedSample"
    /\ Len(call.before) > 0
    /\ Len(images) = 1

(***************************************************************************)
(* C8: in a sequence of write calls on one encoder, each call succeeds iff *)
(* its own arguments are valid, whatever the earlier calls did, and the    *)
(* sink holds exactly the images of the calls that succeeded, in call      *)
(* order, back to back; a failed call leaves the earlier images as they    *)
(* were.                                                                   *)
(***************************************************************************)
\* header then raster of one image: what the call writes to an empty sink
EncodedImage(a) ==
    CASE a.op = "pbm_write" ->
            pbm_write(<< >>, a.encoding, a.width, a.height, a.samples, FALSE).writer
      [] a.op = "pgm_write" ->
            pgm_write(<< >>, a.encoding, a.width, a.height, a.bit_depth, a.samples,
                      FALSE).writer
      [] a.op = "pgm_write_wide" ->
            pgm_write_wide(<< >>, a.encoding, a.width, a.height, a.bit_depth, a.samples,
                           FALSE).writer
      [] a.op = "pam_write" ->
            pam_write(<< >>, a.width, a.height, a.bit_depth, a.channels, a.type_info,
                      a.samples, FALSE).writer
      [] a.op = "pam_write_wide" ->
            pam_write_wide(<< >>, a.width, a.height, a.bit_depth, a.channels, a.type_info,
                           a.samples, FALSE).writer

C8_StreamIsTheValidImagesInOrder ==
    /\ writer = Flatten(Map(images, EncodedImage))
    /\ call.n > 0 =>
         /\ (call.res.tag = "Ok") <=> ValidArgs(call.args)
         /\ call.res.tag = "Ok" =>
              /\ images # << >> /\ images[Len(images)] = call.args
              /\ writer = call.before \o EncodedImage(call.args)
         /\ call.res.tag # "Ok" => writer = call.before

(***************************************************************************)
(* Reading an encoded image back from its bytes.                           *)
(***************************************************************************)
\* the bytes of s after its k-th LF (nothing when s has fewer than k)
RECURSIVE AfterLF(_, _)
AfterLF(s, k) ==
    IF k = 0 THEN s
    ELSE IF s = << >> THEN << >>
    ELSE AfterLF(Tail(s), IF Head(s) = 10 THEN k - 1 ELSE k)

\* the fields of s between the occurrences of sep
RECURSIVE Split(_, _)
Split(s, sep) ==
    IF \A i \in 1..Len(s) : s[i] # sep THEN << s >>
    ELSE LET p == CHOOSE i \in 1..Len(s) : s[i] = sep /\ \A j \in 1..(i - 1) : s[j] # sep
         IN  << SubSeq(s, 1, p - 1) >> \o Split(SubSeq(s, p + 1, Len(s)), sep)

\* the first k lines of s, each without its LF
HeaderLines(s, k) == SubSeq(Split(s, 10), 1, k)

\* s is ASCII decimal digits without a leading zero
IsDecimal(s) ==
    /\ Len(s) >= 1
    /\ \A i \in 1..Len(s) : s[i] \in 48..57
    /\ Len(s) > 1 => s[1] # 48

RECURSIVE DecimalValue(_)
DecimalValue(s) ==
    IF s = << >> THEN 0
    ELSE 10 * DecimalValue(SubSeq(s, 1, Len(s) - 1)) + (s[Len(s)] - 48)

\* s spells the number n
Spells(s, n) == IsDecimal(s) /\ DecimalValue(s) = n

\* the call of this image was op and returned Ok
Wrote(op) == call.args.op = op /\ call.res.tag = "Ok"

CeilDiv8(w) == (w + 7) \div 8

\* byte k of row r of a raw bitmap whose rows are packed one by one
RowByte(samples, w, r, k) ==
    LET Bit(j) == LET col == 8 * (k - 1) + j + 1
                  IN  IF col <= w /\ samples[(r - 1) * w + col] # 0 THEN 2^(7 - j) ELSE 0
    IN  Bit(0) + Bit(1) + Bit(2) + Bit(3) + Bit(4) + Bit(5) + Bit(6) + Bit(7)

\* 16-bit samples as raw bytes: big-endian pairs from bit depth 256 on, else the low byte
WideBytes(samples, bit_depth) ==
    [ i \in 1..(IF bit_depth >= 256 THEN 2 * Len(samples) ELSE Len(samples)) |->
        IF bit_depth >= 256
        THEN IF i % 2 = 1 THEN samples[(i + 1) \div 2] \div 256
                          ELSE samples[i \div 2] % 256
        ELSE samples[i] % 256 ]

TagCount(t) == IF t.kind = "Info" THEN Len(t.tags) ELSE 0

(***************************************************************************)
(* C1: for valid PBM arguments, Decoder::read of the bytes Encoder::write  *)
(* produced returns the Info of the encoding (format, encoding, width,     *)
(* height, bit depth 1, one channel) and leaves the caller's buffer        *)
(* holding the original samples.                                           *)
(***************************************************************************)
C1_PbmRoundTrip ==
    (dec.res.tag # "NotRun" /\ ValidArgs(call.args)) =>
        /\ dec.res.tag = "Ok"
        /\ dec.res.info = new_pbm(call.args.encoding, call.args.width, call.args.height).info
        /\ dec.buf = call.args.samples

(***************************************************************************)
(* C2: a raw PBM raster is height rows of ceil(width / 8) bytes; a row's   *)
(* bytes hold only that row's samples, most significant bit first, and     *)
(* the unused low bits of a row's last byte are zero.                      *)
(***************************************************************************)
C2_PbmRawRowsAreByteAligned ==
    (Wrote("pbm_write") /\ call.args.encoding = "Raw" /\ ValidArgs(call.args)) =>
        LET raster == AfterLF(writer, 2)
            w      == call.args.width
            h      == call.args.height
        IN  /\ Len(raster) = h * CeilDiv8(w)
            /\ \A r \in 1..h : \A k \in 1..CeilDiv8(w) :
                  raster[(r - 1) * CeilDiv8(w) + k] = RowByte(call.args.samples, w, r, k)

(***************************************************************************)
(* C3: the raster of a raw PGM image, written by write or by write_wide,   *)
(* has width * height bytes when bit_depth < 256 and 2 * width * height    *)
(* bytes, a big-endian pair per sample, when bit_depth >= 256.             *)
(***************************************************************************)
C3_PgmRawSampleWidthFollowsBitDepth ==
    ((Wrote("pgm_write") \/ Wrote("pgm_write_wide")) /\ call.args.encoding = "Raw"
        /\ ValidArgs(call.args)) =>
        LET raster == AfterLF(writer, 2)
            n      == call.args.width * call.args.height
        IN  IF call.args.bit_depth < 256
            THEN Len(raster) = n
            ELSE /\ Len(raster) = 2 * n
                 /\ raster = WideBytes(call.args.samples, call.args.bit_depth)

(***************************************************************************)
(* C4: raw PGM write_wide and PAM write_wide emit the samples in input     *)
(* order, each as the two bytes (s div 256, s mod 256) when                *)
(* bit_depth >= 256 and as the one byte s mod 256 when bit_depth < 256.    *)
(***************************************************************************)
C4_WideSamplesAreBigEndian ==
    /\ (Wrote("pgm_write_wide") /\ call.args.encoding = "Raw") =>
          AfterLF(writer, 2) = WideBytes(call.args.samples, call.args.bit_depth)
    /\ Wrote("pam_write_wide") =>
          AfterLF(writer, 6 + TagCount(call.args.type_info))
              = WideBytes(call.args.samples, call.args.bit_depth)

\* a raw 16-bit PGM image whose samples have different high and low bytes
C4_Witness ==
    /\ Wrote("pgm_write_wide") /\ call.args.encoding = "Raw"
    /\ call.args.bit_depth = 256
    /\ call.args.samples = << 256, 1 >>
    /\ AfterLF(writer, 2) = << 1, 0, 0, 1 >>

(***************************************************************************)
(* C9: a PBM image starts with '<magic> LF <width> SP <height> LF' and a   *)
(* PGM image with '<magic> LF <width> SP <height> SP <maxval> LF'; the     *)
(* magic is P4 / P5 for Raw and P1 / P2 for Plain, the numbers are decimal *)
(* ASCII without leading zeros, no CR is written, and the raster follows   *)
(* the second LF directly.                                                 *)
(***************************************************************************)
PnmRaster(a) ==
    CASE a.op = "pbm_write" /\ a.encoding = "Raw"   -> packed_bytes(a.samples)
      [] a.op = "pbm_write" /\ a.encoding = "Plain" -> pbm_build_lines(a.samples)
      [] a.op = "pgm_write" /\ a.encoding = "Raw"   -> a.samples
      [] a.op = "pgm_write_wide" /\ a.encoding = "Raw" -> WideBytes(a.samples, a.bit_depth)
      [] OTHER -> build_lines_u16(a.samples)

C9_PnmHeaderBytes ==
    (Wrote("pbm_write") \/ Wrote("pgm_write") \/ Wrote("pgm_write_wide")) =>
        LET a      == call.args
            pbm    == a.op = "pbm_write"
            lines  == HeaderLines(writer, 2)
            fields == Split(lines[2], 32)
        IN  /\ Len(lines) = 2
            /\ lines[1] = << 80, IF a.encoding = "Raw" THEN (IF pbm THEN 52 ELSE 53)
                                 ELSE (IF pbm THEN 49 ELSE 50) >>
            /\ Len(fields) = IF pbm THEN 2 ELSE 3
            /\ Spells(fields[1], a.width)
            /\ Spells(fields[2], a.height)
            /\ ~pbm => Spells(fields[3], a.bit_depth)
            /\ \A i \in 1..(Len(lines[1]) + Len(lines[2]) + 2) : writer[i] # 13
            /\ writer[Len(lines[1]) + Len(lines[2]) + 2] = 10
            /\ AfterLF(writer, 2) = PnmRaster(a)

\* a plain PGM image, wider than high, with a three-digit maxval
C9_Witness ==
    /\ Wrote("pgm_write") /\ call.args.encoding = "Plain"
    /\ call.args.width = 2 /\ call.args.height = 1 /\ call.args.bit_depth = 255
    /\ SubSeq(writer, 1, 11) = << 80, 50, 10, 50, 32, 49, 32, 50, 53, 53, 10 >>

(***************************************************************************)
(* C10: a PAM image starts with the lines P7, WIDTH w, HEIGHT h,           *)
(* DEPTH channels, MAXVAL maxval, then one TUPLTYPE line per tag of        *)
(* TypeInfo::Info in tag order (none for TypeInfo::Empty or an empty tag   *)
(* list), then ENDHDR as the last header line; the raster follows.         *)
(***************************************************************************)
Keyword(word, line, n) ==
    LET fields == Split(line, 32)
    IN  Len(fields) = 2 /\ fields[1] = word /\ Spells(fields[2], n)

C10_PamHeaderLines ==
    (Wrote("pam_write") \/ Wrote("pam_write_wide")) =>
        LET a     == call.args
            n     == TagCount(a.type_info)
            lines == HeaderLines(writer, 6 + n)
        IN  /\ Len(lines) = 6 + n
            /\ lines[1] = << 80, 55 >>
            /\ Keyword(<< 87, 73, 68, 84, 72 >>, lines[2], a.width)
            /\ Keyword(<< 72, 69, 73, 71, 72, 84 >>, lines[3], a.height)
            /\ Keyword(<< 68, 69, 80, 84, 72 >>, lines[4], a.channels)
            /\ Keyword(<< 77, 65, 88, 86, 65, 76 >>, lines[5], a.bit_depth)
            /\ \A i \in 1..n :
                  lines[5 + i] = << 84, 85, 80, 76, 84, 89, 80, 69, 32 >> \o a.type_info.tags[i]
            /\ lines[6 + n] = << 69, 78, 68, 72, 68, 82 >>
            /\ AfterLF(writer, 6 + n)
                  = IF a.op = "pam_write" THEN a.samples
                    ELSE WideBytes(a.samples, a.bit_depth)

\* an image with two tags: two TUPLTYPE lines, in tag order, then ENDHDR and the raster
C10_Witness ==
    /\ Wrote("pam_write")
    /\ call.args.type_info = TypeInfoInfo(<< TagRGB, TagA >>)
    /\ call.args.samples # << >>
    /\ HeaderLines(writer, 8)[6] = << 84, 85, 80, 76, 84, 89, 80, 69, 32, 82, 71, 66 >>
    /\ HeaderLines(writer, 8)[7] = << 84, 85, 80, 76, 84, 89, 80, 69, 32, 65 >>
    /\ HeaderLines(writer, 8)[8] = << 69, 78, 68, 72, 68, 82 >>

(***************************************************************************)
(* C11: the raster of a plain PBM image is the samples in input order as   *)
(* the tokens '0' / '1', 35 to a line whatever the width, the tokens of a  *)
(* line separated by one space, every line (the last too) ended by one LF  *)
(* with no space before it; so no line is longer than 70 characters, its   *)
(* LF included.                                                            *)
(***************************************************************************)
C11_PbmPlainLines ==
    (Wrote("pbm_write") /\ call.args.encoding = "Plain" /\ ValidArgs(call.args)) =>
        LET samples == call.args.samples
            n       == Len(samples)
            nl      == (n + 34) \div 35
            lines   == Split(AfterLF(writer, 2), 10)
        IN  /\ Len(lines) = nl + 1
            /\ lines[nl + 1] = << >>
            /\ \A k \in 1..nl :
                  LET tokens == Split(lines[k], 32)
                  IN  /\ Len(tokens) = IF k < nl THEN 35 ELSE n - 35 * (nl - 1)
                      /\ \A j \in 1..Len(tokens) :
                            tokens[j] = << 48 + samples[35 * (k - 1) + j] >>
                      /\ Len(lines[k]) + 1 <= 70

\* 72 samples on a 36 x 2 bitmap: two full lines of 35 tokens and a line of two
C11_Witness ==
    /\ Wrote("pbm_write") /\ call.args.encoding = "Plain"
    /\ call.args.width = 36 /\ call.args.height = 2
    /\ call.args.samples[36] = 1
    /\ LET lines == Split(AfterLF(writer, 2), 10)
       IN  /\ Len(lines) = 4
           /\ Len(lines[1]) = 69 /\ Len(lines[2]) = 69
           /\ lines[2][1] = 49
           /\ lines[3] = << 48, 32, 48 >>

(***************************************************************************)
(* C12: the raster of a plain PGM image, written by write or by            *)
(* write_wide, has exactly width * height lines; line k is sample k in     *)
(* decimal ASCII without leading zeros, in full also above 255, followed   *)
(* by LF.                                                                  *)
(***************************************************************************)
C12_PgmPlainLines ==
    ((Wrote("pgm_write") \/ Wrote("pgm_write_wide")) /\ call.args.encoding = "Plain") =>
        LET samples == call.args.samples
            lines   == Split(AfterLF(writer, 2), 10)
            n       == Len(lines) - 1
        IN  /\ ProductIs(n, call.args.width, call.args.height, 1)
            /\ lines[n + 1] = << >>
            /\ n = Len(samples)
            /\ \A k \in 1..n : Spells(lines[k], samples[k])

(***************************************************************************)
(* C13: after the header, PAM Encoder::write emits exactly                 *)
(* width * height * channels bytes, byte i being samples[i]: nothing is    *)
(* reordered, grouped or padded.                                           *)
(***************************************************************************)
C13_PamRasterIsTheSamples ==
    Wrote("pam_write") =>
        LET raster == AfterLF(writer, 6 + TagCount(call.args.type_info))
        IN  /\ ProductIs(Len(raster), call.args.width, call.args.height, call.args.channels)
            /\ raster = call.args.samples

(***************************************************************************)
(* C14: with the format, the encoding, the width, the height and the bit   *)
(* depth fixed, two different valid sample sequences never encode to the   *)
(* same bytes (PBM and PGM, raw and plain, 8-bit and 16-bit entry points,  *)
(* PAM).                                                                   *)
(***************************************************************************)
\* the sample buffers the entry point of call a could have been handed instead
OtherSamples(a) ==
    IF a.op \in {"pgm_write_wide", "pam_write_wide"}
    THEN SeqsUpTo(U16Vals, MaxLen) \ {a.samples}
    ELSE SeqsUpTo(U8Vals, MaxLen) \ {a.samples}

C14_EncodingIsInjective ==
    (call.res.tag = "Ok" /\ ValidArgs(call.args)) =>
        \A s \in OtherSamples(call.args) :
            LET other == [call.args EXCEPT !.samples = s]
            IN  ValidArgs(other) => EncodedImage(other) # writer

\* a 16-bit raw image of one sample, 256, which differs from 0 in its high byte only
C14_Witness ==
    /\ Wrote("pgm_write_wide") /\ call.args.encoding = "Raw"
    /\ call.args.bit_depth = 256
    /\ call.args.samples = << 256 >>
    /\ ValidArgs([call.args EXCEPT !.samples = << 0 >>])
    /\ AfterLF(writer, 2) = << 1, 0 >>
    /\ AfterLF(EncodedImage([call.args EXCEPT !.samples = << 0 >>]), 2) = << 0, 0 >>

(***************************************************************************)
(* C15: Decoder::read sorts the first two bytes of its input into exactly  *)
(* one of four outcomes: P4 is decoded as raw PBM, P1 as plain PBM, any    *)
(* other magic number (P2, P3, P5, P6, P7) fails with an 'invalid magic    *)
(* number' error naming it, any other pair fails with an 'unexpected       *)
(* bytes' error, which differs from the former.                            *)
(***************************************************************************)
\* the Decoder has read the input
HasRead == call.res.tag = "None" /\ dec.res.tag # "NotRun"

C15_DecoderMagicDispatch ==
    (HasRead /\ Len(writer) >= 2) =>
        LET pair == SubSeq(writer, 1, 2)
        IN  CASE pair = << 80, 52 >> ->
                    dec.res.tag = "Ok" /\ dec.res.info.format = "PBMRaw"
              [] pair = << 80, 49 >> ->
                    dec.res.tag = "Ok" /\ dec.res.info.format = "PBMPlain"
              [] pair[1] = 80 /\ pair[2] \in {50, 51, 53, 54, 55} ->
                    /\ dec.res.tag = "IOOperationFailed"
                    /\ dec.res.info = << "Invalid magic number: ", pair >>
              [] OTHER ->
                    /\ dec.res.tag = "IOOperationFailed"
                    /\ dec.res.info[1] = "Unexpected bytes at magic number position: "
                    /\ dec.res.info[1] # "Invalid magic number: "
                    /\ dec.res.info[2] = pair

\* P1 followed by a digit is read as a plain bitmap
C15_Witness ==
    /\ HasRead
    /\ writer = << 80, 49, 52 >>
    /\ dec.res.tag = "Ok"
    /\ dec.res.info.format = "PBMPlain"

(***************************************************************************)
(* C16: Decoder::read answers every malformed input, the empty input and   *)
(* an input of one byte included, with an error value; it never aborts.    *)
(***************************************************************************)
\* an input too short for a magic number, or not starting with a PBM magic number
Malformed(input) ==
    \/ Len(input) < 2
    \/ SubSeq(input, 1, 2) \notin { << 80, 49 >>, << 80, 52 >> }

C16_DecoderNeverAborts ==
    (HasRead /\ Malformed(writer)) => dec.res.tag \notin {"Ok", "Panic"}

(***************************************************************************)
(* C17: after a successful Plain write on a PBM or PGM encoder, the next   *)
(* write call with valid arguments on that encoder succeeds too and        *)
(* appends a complete image, header and raster, to the sink: a plain       *)
(* write does not close the encoder.                                       *)
(***************************************************************************)
C17_PlainWriteDoesNotCloseTheEncoder ==
    [][ ( /\ encoder \in {"pbm", "pgm"}
          /\ call.res.tag = "Ok" /\ call.args.encoding = "Plain"
          /\ call'.n = call.n + 1
          /\ ValidArgs(call'.args) )
        => ( /\ call'.res.tag = "Ok"
             /\ writer' = writer \o EncodedImage(call'.args)
             /\ Len(EncodedImage(call'.args)) > 0 ) ]_vars

\* two plain images on one PGM encoder: both calls succeeded, the sink holds both
C17_Witness ==
    /\ encoder = "pgm"
    /\ call.n = 2 /\ call.res.tag = "Ok"
    /\ Len(images) = 2
    /\ images[1].encoding = "Plain" /\ images[2].encoding = "Plain"
    /\ writer = EncodedImage(images[1]) \o EncodedImage(images[2])
    /\ Len(call.before) > 0 /\ Len(writer) > Len(call.before)

Constructed(field) ==
    /\ val.ctor \in { "fields::" \o field, "formats::" \o field }
    /\ val.res.tag # "Pending"

C19_BitDepthRange ==
    Constructed("BitDepth") =>
        IF 1 <= val.arg /\ val.arg <= 65535
        THEN val.res.tag = "Ok" /\ val.value = val.arg
        ELSE val.res = [tag |-> "InvalidBitDepth", value |-> val.arg]

\* the u32 constructor rejects the first value above the range
C19_Witness ==
    /\ val.ctor = "fields::BitDepth"
    /\ val.arg = 65536
    /\ val.res = [tag |-> "InvalidBitDepth", value |-> 65536]

(***************************************************************************)
(* C20: ImageDim::new(v) and ChannelDepth::new(v) succeed iff v > 0, and   *)
(* value() then returns v itself, however large; for 0 they fail with      *)
(* InvalidImageDim / InvalidChannelDepth carrying 0.                       *)
(***************************************************************************)
C20_DimAndChannelDepthArePositive ==
    /\ Constructed("ImageDim") =>
          IF val.arg > 0
          THEN val.res.tag = "Ok" /\ val.value = val.arg
          ELSE val.res = [tag |-> "InvalidImageDim", value |-> 0]
    /\ Constructed("ChannelDepth") =>
          IF val.arg > 0
          THEN val.res.tag = "Ok" /\ val.value = val.arg
          ELSE val.res = [tag |-> "InvalidChannelDepth", value |-> 0]

\* a dimension far above 16 bits is kept as it is
C20_Witness ==
    /\ val.ctor = "fields::ImageDim"
    /\ val.arg = 2147483647
    /\ val.res.tag = "Ok"
    /\ val.value = 2147483647

(***************************************************************************)
(* C21: every Info that new_pbm, new_pgm, new_ppm or new_pam returns has   *)
(* width > 0, height > 0, bit_depth in 1..65535 and channels > 0; channels *)
(* is 1 for PBM and PGM, 3 for PPM and the caller's value for PAM;         *)
(* bit_depth is 1 for PBM; the format is the variant of the requested      *)
(* encoding; a PAM Info has encoding Raw.                                  *)
(***************************************************************************)
\* an Info constructor returned an Info
ReturnedInfo == val.res.tag = "Ok" /\ val.ctor \in {"new_pbm", "new_pgm", "new_ppm", "new_pam"}

C21_InfoInvariant ==
    ReturnedInfo =>
        LET info == val.info
        IN  /\ info.width > 0 /\ info.height > 0 /\ info.channels > 0
            /\ info.bit_depth \in 1..65535
            /\ info.width = val.width /\ info.height = val.height
            /\ CASE val.ctor = "new_pbm" ->
                      /\ info.channels = 1 /\ info.bit_depth = 1
                      /\ info.encoding = val.encoding
                      /\ info.format = IF val.encoding = "Raw" THEN "PBMRaw" ELSE "PBMPlain"
                 [] val.ctor = "new_pgm" ->
                      /\ info.channels = 1 /\ info.bit_depth = val.bit_depth
                      /\ info.encoding = val.encoding
                      /\ info.format = IF val.encoding = "Raw" THEN "PGMRaw" ELSE "PGMPlain"
                 [] val.ctor = "new_ppm" ->
                      /\ info.channels = 3 /\ info.bit_depth = val.bit_depth
                      /\ info.encoding = val.encoding
                      /\ info.format = IF val.encoding = "Raw" THEN "PPMRaw" ELSE "PPMPlain"
                 [] val.ctor = "new_pam" ->
                      /\ info.channels = val.channels /\ info.bit_depth = val.bit_depth
                      /\ info.encoding = "Raw"
                      /\ info.format = "PAM"

\* a plain pixmap Info: three channels, the caller's bit depth
C21_Witness ==
    /\ ReturnedInfo /\ val.ctor = "new_ppm" /\ val.encoding = "Plain"
    /\ val.bit_depth = 65535
    /\ val.info = MkInfo("PPMPlain", "Plain", val.width, val.height, 65535, 3)

(***************************************************************************)
(* C22: when several arguments of an Info constructor are invalid, one     *)
(* error is returned, that of the first invalid one in the order width,    *)
(* height, bit depth, channels.                                            *)
(***************************************************************************)
C22_FirstInvalidFieldIsReported ==
    (val.res.tag # "Pending" /\ val.ctor \in {"new_pbm", "new_pgm", "new_ppm", "new_pam"}) =>
        val.res =
            IF val.width = 0 THEN [tag |-> "InvalidImageDim", value |-> val.width]
            ELSE IF val.height = 0 THEN [tag |-> "InvalidImageDim", value |-> val.height]
            ELSE IF val.ctor # "new_pbm" /\ val.bit_depth = 0
                 THEN [tag |-> "InvalidBitDepth", value |-> val.bit_depth]
            ELSE IF val.ctor = "new_pam" /\ val.channels = 0
                 THEN [tag |-> "InvalidChannelDepth", value |-> val.channels]
            ELSE Ok

\* height, bit depth and channels all invalid: the height is reported
C22_Witness ==
    /\ val.ctor = "new_pam"
    /\ val.width = 1 /\ val.height = 0 /\ val.bit_depth = 0 /\ val.channels = 0
    /\ val.res = [tag |-> "InvalidImageDim", value |-> 0]

(***************************************************************************)
(* C23: magic maps each of the 7 formats to its own magic number,          *)
(* PBMPlain -> P1, PGMPlain -> P2, PPMPlain -> P3, PBMRaw -> P4,           *)
(* PGMRaw -> P5, PPMRaw -> P6, PAM -> P7; two different formats never      *)
(* share one, and the magic number's two bytes are 'P' and its digit.      *)
(***************************************************************************)
\* the digit of the format's magic number
MagicDigit(format) ==
    LET kind == CASE format \in {"PBMRaw", "PBMPlain"} -> 1
                  [] format \in {"PGMRaw", "PGMPlain"} -> 2
                  [] format \in {"PPMRaw", "PPMPlain"} -> 3
                  [] format = "PAM" -> 7
    IN  IF format \in {"PBMRaw", "PGMRaw", "PPMRaw"} THEN kind + 3 ELSE kind

MagicAsked == "asked" \in DOMAIN val /\ "magic" \in val.asked

C23_MagicIsTotalAndInjective ==
    MagicAsked =>
        /\ val.magic \in MagicNumber /\ val.other_magic \in MagicNumber
        /\ val.magic = << "P1", "P2", "P3", "P4", "P5", "P6", "P7" >>[MagicDigit(val.format)]
        /\ val.bytes = << 80, 48 + MagicDigit(val.format) >>
        /\ val.other_bytes = << 80, 48 + MagicDigit(val.other) >>
        /\ (val.format # val.other) =>
              (val.magic # val.other_magic /\ val.bytes # val.other_bytes)

\* the raw and the plain bitmap: P4 and P1
C23_Witness ==
    /\ MagicAsked /\ val.format = "PBMRaw" /\ val.other = "PBMPlain"
    /\ val.magic = "P4" /\ val.other_magic = "P1"
    /\ val.bytes = << 80, 52 >> /\ val.other_bytes = << 80, 49 >>

(***************************************************************************)
(* C24: is_pnm is true for the six PBM / PGM / PPM formats, raw and plain, *)
(* and false for PAM only.                                                 *)
(***************************************************************************)
PnmAsked == "asked" \in DOMAIN val /\ "is_pnm" \in val.asked

C24_IsPnmExceptPam ==
    PnmAsked => (val.is_pnm <=> val.format # "PAM")

C24_Witness == PnmAsked /\ val.format = "PAM" /\ val.is_pnm = FALSE

(***************************************************************************)
(* C25: the raster of a raw PBM image is the flat sample sequence cut into *)
(* consecutive groups of 8 samples, the i-th sample of a group (i = 0..7)  *)
(* at bit 7-i of the group's byte and the unused low bits of an incomplete *)
(* last group zero; it has ceil(width*height/8) bytes.  Twelve alternating *)
(* samples 1,0,... on a 4 x 3 bitmap give the two bytes 0xAA 0xA0.         *)
(***************************************************************************)
\* byte k of the samples packed as one flat sequence
FlatByte(samples, k) ==
    LET Bit(i) == LET p == 8 * (k - 1) + i + 1
                  IN  IF p <= Len(samples) /\ samples[p] = 1 THEN 2^(7 - i) ELSE 0
    IN  Bit(0) + Bit(1) + Bit(2) + Bit(3) + Bit(4) + Bit(5) + Bit(6) + Bit(7)

Constructs(ctor) == val.ctor = ctor /\ val.res.tag # "Pending"

\* the colors are one triplet per pixel
OneTripletPerPixel == ProductIs(Len(val.colors), val.width, val.height, 1)

ChannelsOf(colors) == { colors[i][j] : i \in 1..Len(colors), j \in 1..3 }

C26_PpmImageInvariant ==
    Constructs("from_colors") =>
        IF val.width = 0 \/ val.height = 0
        THEN val.res = [tag |-> "InvalidImageDim", value |-> 0]
        ELSE IF ~OneTripletPerPixel
        THEN val.res = [ tag |-> "MalformedInitArray", length |-> Len(val.colors),
                         width |-> val.width, height |-> val.height ]
        ELSE IF val.bit_depth \notin 1..65535
        THEN val.res = [tag |-> "InvalidBitDepth", value |-> val.bit_depth]
        ELSE IF \E c \in ChannelsOf(val.colors) : c > val.bit_depth
        THEN val.res.tag = "OversizedChannel"
        ELSE val.res = [ tag |-> "Ok",
                         image |-> PpmImage(val.colors, val.width, val.height,
                                            val.bit_depth) ]

(***************************************************************************)
(* C27: with_inferred_bd succeeds iff width > 0, height > 0, there is one  *)
(* triplet per pixel and the largest channel is at least 1; the image's    *)
(* bit depth is then that largest channel; colors that are all 0 are       *)
(* rejected with InvalidBitDepth carrying 0.                               *)
(***************************************************************************)
C27_InferredBitDepth ==
    Constructs("with_inferred_bd") =>
        LET fits == val.width > 0 /\ val.height > 0 /\ OneTripletPerPixel
            top  == CHOOSE c \in ChannelsOf(val.colors) :
                        \A d \in ChannelsOf(val.colors) : d <= c
        IN  /\ val.res.tag = "Ok" <=> (fits /\ top >= 1)
            /\ val.res.tag = "Ok" =>
                  val.res.image = PpmImage(val.colors, val.width, val.height, top)
            /\ (fits /\ top = 0) => val.res = [tag |-> "InvalidBitDepth", value |-> 0]

(***************************************************************************)
(* C28: size validation accepts a buffer only when its length is the true, *)
(* unbounded product width * height * channels, never because the product  *)
(* was reduced modulo 2^32, and computing the product never aborts.        *)
(***************************************************************************)
\* validation went past the size check
SizeAccepted == val.res.tag \notin {"Panic", "MalformedInitArray"}

C28_NoWraparoundAcceptance ==
    Validated => (val.res.tag # "Panic" /\ (SizeAccepted => SizeMatches))

(***************************************************************************)
(* C29: after PpmRaw::new() and n add_image calls, iter() yields exactly   *)
(* those n images in the order they were added; a PpmPlain holds exactly   *)
(* one image, the one it was made with, for its whole life.                *)
(***************************************************************************)
Yielded == dec.res.tag = "Yielded"

C29_PpmRawKeepsInsertionOrder ==
    /\ val.format = "Raw" =>
          /\ val.file.images = images
          /\ Yielded => dec.buf = SubSeq(images, 1, dec.res.n)
    /\ val.format = "Plain" =>
          /\ Len(images) = 1 /\ val.file.image = images[1]
          /\ Yielded => dec.buf = images

\* three images, the first two different, read back after the third was added
C29_Witness ==
    /\ val.format = "Raw" /\ Len(images) = MaxImages /\ images[1] # images[2]
    /\ Yielded /\ dec.res.n = MaxImages /\ dec.buf = images

(***************************************************************************)
(* C30: in raw PGM write_wide and PAM write_wide with bit_depth < 256,     *)
(* every byte emitted for a sample equals the sample's full value: a       *)
(* sample with a non-zero high byte is rejected by validation before the   *)
(* truncating branch runs.                                                 *)
(***************************************************************************)
\* the raster of a raw 16-bit write
WideRaster ==
    IF call.args.op = "pgm_write_wide" THEN AfterLF(writer, 2)
    ELSE AfterLF(writer, 6 + TagCount(call.args.type_info))

WroteTruncated ==
    /\ \/ Wrote("pgm_write_wide") /\ call.args.encoding = "Raw"
       \/ Wrote("pam_write_wide")
    /\ call.args.bit_depth < 256

C30_TruncationIsLossless ==
    WroteTruncated =>
        /\ Len(WideRaster) = Len(call.args.samples)
        /\ \A i \in 1..Len(call.args.samples) :
              /\ call.args.samples[i] < 256
              /\ WideRaster[i] = call.args.samples[i]

\* two 16-bit samples written as one byte each at bit depth 255
C30_Witness ==
    /\ Wrote("pam_write_wide") /\ call.args.bit_depth = 255
    /\ call.args.samples = << 1, 0 >>
    /\ WideRaster = << 1, 0 >>

====
